---- MODULE Spec2Model ----
(***************************************************************************)
(* A model of GEDCOMXTo7 (src/xto70.js): the conversion of a GEDCOM X      *)
(* object graph into a GEDCOM 7 document.  The state is the closure state  *)
(* of one call: the heap of g7s record nodes, the `records` registry, the  *)
(* anchor counter g7s.nextXrefID, the numbering tables gennumber and famof,*)
(* the messages handed to the error callback, and the position of the call *)
(* in its three passes (persons, relationships, generation codes) and the  *)
(* final assembly.  Beside it stand what outlives a call: the number of    *)
(* the call, the documents returned so far, and the global variable per2   *)
(* (globalPer2) that doGenerationCode assigns without declaring it.        *)
(***************************************************************************)
EXTENDS Integers, Sequences, FiniteSets, TLC

VARIABLES gx, pc, pi, ri, todo, nodes, records, nextXrefID, gennumber, famof,
          errors, thrown, doc, emitted, call, returned, globalPer2

vars == <<gx, pc, pi, ri, todo, nodes, records, nextXrefID, gennumber, famof,
          errors, thrown, doc, emitted, call, returned, globalPer2>>

(***************************************************************************)
(* JavaScript values.                                                      *)
(***************************************************************************)
\* The JavaScript value undefined (an absent property, an absent argument).
UNDEF == "<undefined>"

\* No heap node: the result of reading an absent registry or table entry.
NoNode == 0

\* String(v) as used for a property key and in '#'+v.
PropKey(v) == IF v = UNDEF THEN "undefined" ELSE v

\* Array.prototype.join's rendering of one element: undefined gives ''.
JoinPart(v) == IF v = UNDEF THEN "" ELSE v

\* The strings that are sorted by Array.prototype.sort() in makeOrFindFam, in
\* ascending order of their UTF-16 code units.
StrOrder == <<"P1", "P2", "P3", "P4", "P5", "P6", "P7">>

StrRank(s) == CHOOSE i \in 1..Len(StrOrder) : StrOrder[i] = s

\* [a, b].sort(): undefined goes last, strings ascend by code units.
SortPair(a, b) ==
  IF a = UNDEF THEN <<b, a>>
  ELSE IF b = UNDEF THEN <<a, b>>
  ELSE IF StrRank(b) < StrRank(a) THEN <<b, a>>
  ELSE <<a, b>>

\* A variant of CoupleKey that joins the two ids without sorting them.
CoupleKeyUnsorted(a, b) == JoinPart(a) \o "+" \o JoinPart(b)

\* [p1?.resourceId, p2?.resourceId].sort().join('+')
CoupleKey(a, b) == JoinPart(SortPair(a, b)[1]) \o "+" \o JoinPart(SortPair(a, b)[2])

\* '#'+id, the registry key of a person.
PersonKey(id) == "#" \o PropKey(id)

\* Registry keys that are canonical array indices, with their numeric value:
\* Object.values lists these first, in ascending numeric order.
ArrayIndexKeys == {"3", "7"}

ArrayIndexValue(k) == IF k = "3" THEN 3 ELSE 7

(***************************************************************************)
(* Numbering keys are sequences of characters.                             *)
(***************************************************************************)
Digit == {"0", "1", "2", "3", "4", "5", "6", "7", "8", "9"}

DigitValue(c) ==
  CASE c = "0" -> 0 [] c = "1" -> 1 [] c = "2" -> 2 [] c = "3" -> 3 [] c = "4" -> 4
    [] c = "5" -> 5 [] c = "6" -> 6 [] c = "7" -> 7 [] c = "8" -> 8 [] c = "9" -> 9

DigitChar(d) == <<"0", "1", "2", "3", "4", "5", "6", "7", "8", "9">>[d + 1]

\* The rank of a character in localeCompare's (root collation) order:
\* punctuation '-' '.', then digits, then letters.
CharRank(c) ==
  CASE c = "-" -> 0 [] c = "." -> 1 [] c = "S" -> 12 [] OTHER -> 2 + DigitValue(c)

\* a.localeCompare(b) < 0
RECURSIVE LocaleLess(_, _)
LocaleLess(a, b) ==
  IF b = <<>> THEN FALSE
  ELSE IF a = <<>> THEN TRUE
  ELSE IF CharRank(Head(a)) # CharRank(Head(b)) THEN CharRank(Head(a)) < CharRank(Head(b))
  ELSE LocaleLess(Tail(a), Tail(b))

\* A variant of KeyBefore that compares the keys without their lengths.
KeyBeforeByLocaleOnly(a, b) == LocaleLess(a, b)

\* The comparator of the sort before the generation pass:
\* a[0].length-b[0].length || a[0].localeCompare(b[0]), negative.
KeyBefore(a, b) == Len(a) < Len(b) \/ (Len(a) = Len(b) /\ LocaleLess(a, b))

\* Object.entries(gennumber).sort(...), as the sequence of keys.
RECURSIVE SortKeys(_)
SortKeys(S) ==
  IF S = {} THEN <<>>
  ELSE LET m == CHOOSE k \in S : \A o \in S \ {k} : KeyBefore(k, o)
       IN  <<m>> \o SortKeys(S \ {m})

\* num.includes('-S')
IncludesDashS(num) == \E i \in 1..(Len(num) - 1) : num[i] = "-" /\ num[i + 1] = "S"

\* num.includes('.')
IncludesDot(num) == \E i \in 1..Len(num) : num[i] = "."

\* /^(.*)[-.]([S0-9]+)$/.exec(num): the index of the separator the greedy
\* (.*) stops at, 0 when the expression does not match.
SplitAt(num) ==
  LET ok == {i \in 1..(Len(num) - 1) :
               /\ num[i] \in {"-", "."}
               /\ \A j \in (i + 1)..Len(num) : num[j] \in Digit \cup {"S"}}
  IN  IF ok = {} THEN 0 ELSE CHOOSE i \in ok : \A j \in ok : j <= i

Prev(num) == SubSeq(num, 1, SplitAt(num) - 1)

Here(num) == SubSeq(num, SplitAt(num) + 1, Len(num))

\* Number(s) for a string of decimal digits.
RECURSIVE DecimalValue(_)
DecimalValue(s) ==
  IF s = <<>> THEN 0 ELSE 10 * DecimalValue(SubSeq(s, 1, Len(s) - 1)) + DigitValue(s[Len(s)])

\* String(n) for a natural number.
RECURSIVE DecimalString(_)
DecimalString(n) ==
  IF n < 10 THEN <<DigitChar(n)>> ELSE DecimalString(n \div 10) \o <<DigitChar(n % 10)>>

(***************************************************************************)
(* g7s nodes.  A payload is null, a text or a reference to a heap node.    *)
(* A text is a string without line breaks (s) or, for the values of facts, *)
(* a sequence of characters (t).                                           *)
(***************************************************************************)
Null == [k |-> "null", n |-> 0, s |-> "", t |-> <<>>]

Text(s) == [k |-> "text", n |-> 0, s |-> s, t |-> <<>>]

Chars(t) == [k |-> "text", n |-> 0, s |-> "", t |-> t]

Ref(n) == [k |-> "ref", n |-> n, s |-> "", t |-> <<>>]

VOID == Text("@VOID@")

\* String(payload).replace(/\r\n?/g, '\n')
RECURSIVE Normalize(_)
Normalize(t) ==
  IF t = <<>> THEN <<>>
  ELSE IF Head(t) = "\r"
    THEN <<"\n">> \o Normalize(IF Len(t) > 1 /\ t[2] = "\n" THEN SubSeq(t, 3, Len(t)) ELSE Tail(t))
  ELSE <<Head(t)>> \o Normalize(Tail(t))

\* The object g7s builds: payload normalised, absent substructures filtered.
\* A falsy payload (undefined, null, '') becomes null.
g7s(tag, payload, subs) ==
  [tag |-> tag,
   id |-> 0,
   payload |-> IF payload.k = "ref" /\ payload.n = NoNode THEN Null
               ELSE IF payload.k = "text" /\ payload.s \in {"", UNDEF} /\ payload.t = <<>> THEN Null
               ELSE IF payload.k = "text" THEN [payload EXCEPT !.t = Normalize(@)]
               ELSE payload,
   subs |-> SelectSeq(subs, LAMBDA x : x # Null),
   resourceId |-> UNDEF]

(***************************************************************************)
(* The closure state of one call, threaded through the helpers.            *)
(***************************************************************************)
Store ==
  [nodes |-> nodes, records |-> records, nextXrefID |-> nextXrefID,
   gennumber |-> gennumber, famof |-> famof, errors |-> errors, thrown |-> thrown]

\* An uncaught exception ends the call: nothing after it runs.
Throw(h, what) == [h EXCEPT !.thrown = what]

\* A new g7s object on the heap; its handle is the new length of the heap.
Alloc(h, node) == [h EXCEPT !.nodes = Append(@, node)]

\* A variant of Xref that gives a node a new anchor at every reference.
XrefRenumbers(h, n) ==
  IF n # NoNode
  THEN [h EXCEPT !.nextXrefID = @ + 1, !.nodes[n].id = h.nextXrefID + 1]
  ELSE h

\* g7s with an object payload: if (!payload.id) payload.id = 'X'+(g7s.nextXrefID += 1)
Xref(h, n) ==
  IF n # NoNode /\ h.nodes[n].id = 0
  THEN [h EXCEPT !.nextXrefID = @ + 1, !.nodes[n].id = h.nextXrefID + 1]
  ELSE h

\* g7s.prototype.add with one substructure: absent ones are filtered out.
Add(h, n, sub) == IF sub = Null THEN h ELSE [h EXCEPT !.nodes[n].subs = Append(@, sub)]

\* records[key], NoNode when the property is absent.
Lookup(recs, key) ==
  IF \E i \in 1..Len(recs) : recs[i].key = key
  THEN recs[CHOOSE i \in 1..Len(recs) : recs[i].key = key].node
  ELSE NoNode

\* key in records
HasKey(recs, key) == \E i \in 1..Len(recs) : recs[i].key = key

\* records[key] = n: a new property is appended, an existing one keeps its place.
Put(recs, key, n) ==
  IF HasKey(recs, key)
  THEN [i \in 1..Len(recs) |-> IF recs[i].key = key THEN [key |-> key, node |-> n] ELSE recs[i]]
  ELSE Append(recs, [key |-> key, node |-> n])

Truthy(v) == v # UNDEF /\ v # ""

(***************************************************************************)
(* Entity builders.                                                        *)
(***************************************************************************)
\* A variant of doSource that builds and registers a record on every request.
doSourceAlwaysCreates(h, s) ==
  LET h1 == Alloc(h, g7s("SOUR", Null, <<IF Truthy(s.id) THEN g7s("UID", Text(s.id), <<>>) ELSE Null>>))
  IN  [h |-> [h1 EXCEPT !.records = Put(@, PropKey(s.id), Len(h1.nodes))], n |-> Len(h1.nodes)]

\* doSource: find or create the SOUR record of a source reference.
doSource(h, s) ==
  IF Lookup(h.records, PropKey(s.id)) # NoNode
  THEN [h |-> h, n |-> Lookup(h.records, PropKey(s.id))]
  ELSE LET uid == IF Truthy(s.id) THEN g7s("UID", Text(s.id), <<>>) ELSE Null
           exid == IF Truthy(s.descriptionId)
                   THEN g7s("EXID", Text(s.descriptionId),
                            <<g7s("TYPE", Text("https://gedcom.io/exid-type/FamilySearch-SourceDescriptionId"), <<>>)>>)
                   ELSE Null
           h1 == Alloc(h, g7s("SOUR", Null, <<uid, exid>>))
           n == Len(h1.nodes)
       IN  [h |-> [h1 EXCEPT !.records = Put(@, PropKey(s.id), n)], n |-> n]

\* sources?.forEach(s => target.add(g7s('SOUR', doSource(s))))
RECURSIVE AddSources(_, _, _)
AddSources(h, n, srcs) ==
  IF srcs = <<>> THEN h
  ELSE LET r == doSource(h, Head(srcs))
       IN  AddSources(Add(Xref(r.h, r.n), n, g7s("SOUR", Ref(r.n), <<>>)), n, Tail(srcs))

\* The vocabulary tables of doIndividualFact (an excerpt of each).
PersonEtags == [t \in {"http://gedcomx.org/Birth", "http://gedcomx.org/Death"} |->
                  IF t = "http://gedcomx.org/Birth" THEN "BIRT" ELSE "DEAT"]

PersonAtags == [t \in {"http://gedcomx.org/Occupation"} |-> "OCCU"]

PersonEvens == [t \in {"http://gedcomx.org/Visit"} |->
                  "A person's visit to a place different from the person's residence."]

PersonFacts == [t \in {"http://gedcomx.org/Clan"} |-> "A person's clan."]

\* The vocabulary tables of doRelationshipFact (an excerpt of each).
CoupleEtags == [t \in {"http://gedcomx.org/Marriage", "http://gedcomx.org/Divorce"} |->
                  IF t = "http://gedcomx.org/Marriage" THEN "MARR" ELSE "DIV"]

CoupleAtags == [t \in {"http://gedcomx.org/Residence"} |-> "RESI"]

CoupleEvens == [t \in {"http://gedcomx.org/Separation"} |-> "A couple's separation."]

CoupleFacts == [t \in {} |-> ""]

\* f.type.startsWith('data:'), with parseDataURL's result for the types modelled.
DataTypes == [t \in {"data:,Hobby"} |-> "Hobby"]

\* The node a fact converts to: the common body of doIndividualFact and
\* doRelationshipFact for a fact with a type and an optional value (no date,
\* place, sources or qualifiers).  Null stands for `ans` left undefined.
\* if (f.value): a fact's value is a sequence of characters, empty when the
\* fact has none.
HasValue(v) == v # <<>>

FactNode(f, etags, atags, evens, facts) ==
  LET val == IF HasValue(f.value) THEN Chars(f.value) ELSE Null
      ans == IF f.type \in DOMAIN etags
               THEN g7s(etags[f.type], Null,
                        <<IF HasValue(f.value) THEN g7s("TYPE", val, <<>>) ELSE Null>>)
             ELSE IF f.type \in DOMAIN atags
               THEN g7s(atags[f.type], val,
                        <<IF atags[f.type] = "IDNO" THEN g7s("TYPE", Text("Unspecified"), <<>>) ELSE Null>>)
             ELSE IF f.type \in DOMAIN evens
               THEN g7s("EVEN", Null,
                        <<g7s("TYPE", Text(evens[f.type]), <<>>),
                          IF HasValue(f.value) THEN g7s("NOTE", val, <<>>) ELSE Null>>)
             ELSE IF f.type \in DOMAIN facts
               THEN g7s("FACT", val, <<g7s("TYPE", Text(facts[f.type]), <<>>)>>)
             ELSE IF f.type \in DOMAIN DataTypes
               THEN g7s("EVEN", val, <<g7s("TYPE", Text(DataTypes[f.type]), <<>>)>>)
             ELSE Null
  IN  IF ans # Null /\ ans.subs = <<>> /\ ans.payload = Null
      THEN [ans EXCEPT !.payload = Text("Y")]
      ELSE ans

\* doIndividualFact: an unknown type is reported through the error callback and
\* leaves `ans` undefined; `ans.subs` then raises a TypeError.
doIndividualFact(h, f) ==
  LET ans == FactNode(f, PersonEtags, PersonAtags, PersonEvens, PersonFacts)
  IN  IF ans = Null
      THEN [h |-> Throw([h EXCEPT !.errors = Append(@, "Unknown person fact type: " \o f.type)],
                        "TypeError"),
            ans |-> Null]
      ELSE [h |-> h, ans |-> ans]

\* doRelationshipFact: as doIndividualFact, with the couple tables.
doRelationshipFact(h, f) ==
  LET ans == FactNode(f, CoupleEtags, CoupleAtags, CoupleEvens, CoupleFacts)
  IN  IF ans = Null
      THEN [h |-> Throw([h EXCEPT !.errors = Append(@, "Unknown family fact type: " \o f.type)],
                        "TypeError"),
            ans |-> Null]
      ELSE [h |-> h, ans |-> ans]

\* facts?.forEach(f => target.add(doIndividualFact(f))), or doRelationshipFact
\* when couple is TRUE; an exception ends the loop.
RECURSIVE AddFacts(_, _, _, _)
AddFacts(h, n, fs, couple) ==
  IF fs = <<>> \/ h.thrown # "" THEN h
  ELSE LET r == IF couple THEN doRelationshipFact(h, Head(fs)) ELSE doIndividualFact(h, Head(fs))
       IN  IF r.h.thrown # "" THEN r.h
           ELSE AddFacts(Add(r.h, n, r.ans), n, Tail(fs), couple)

\* p.gender: the SEX substructure (or a FACT for another type).
SexNode(gender) ==
  IF gender = UNDEF THEN Null
  ELSE IF gender = "http://gedcomx.org/Male" THEN g7s("SEX", Text("M"), <<>>)
  ELSE IF gender = "http://gedcomx.org/Female" THEN g7s("SEX", Text("F"), <<>>)
  ELSE IF gender = "http://gedcomx.org/Unknown" THEN g7s("SEX", Text("U"), <<>>)
  ELSE IF gender = "http://gedcomx.org/Intersex" THEN g7s("SEX", Text("X"), <<>>)
  ELSE g7s("FACT", Text(gender), <<g7s("TYPE", Text("Gender"), <<>>)>>)

\* The EXID substructure a new INDI record starts with.
PersonExid(id) ==
  g7s("EXID", Text(id), <<g7s("TYPE", Text("https://gedcom.io/exid-type/FamilySearch-PersonId"), <<>>)>>)

\* gennumber[num] = me when num is truthy.
SetGen(gen, num, me) == IF num = <<>> THEN gen ELSE (num :> me) @@ gen

\* doPerson: the INDI record of a person (names, notes and personInfo absent).
doPerson(h, p) ==
  LET found == Lookup(h.records, PersonKey(p.id))
      h0 == IF found # NoNode THEN h ELSE Alloc(h, g7s("INDI", Null, <<PersonExid(p.id)>>))
      me == IF found # NoNode THEN found ELSE Len(h0.nodes)
      h1 == Add(h0, me, SexNode(p.gender))
      h2 == AddSources(h1, me, p.sources)
      h3 == AddFacts(h2, me, p.facts, FALSE)
      h4 == [h3 EXCEPT !.gennumber = SetGen(SetGen(@, p.asc, me), p.desc, me)]
  IN  IF h3.thrown # "" THEN h3
      ELSE [h4 EXCEPT !.records = Put(@, PersonKey(p.id), me),
                      !.nodes[me].resourceId = p.id]

\* A variant of makeOrFindFam that links the participants to the family-group
\* with FAMS also when the family-group is found.
makeOrFindFamLinksAgain(h, p1, p2) ==
  LET id == CoupleKey(p1, p2)
  IN  IF HasKey(h.records, id)
      THEN LET ans == Lookup(h.records, id)
               r1 == IF p1 # UNDEF THEN Lookup(h.records, PersonKey(p1)) ELSE NoNode
               r2 == IF p2 # UNDEF THEN Lookup(h.records, PersonKey(p2)) ELSE NoNode
               he == IF p1 # UNDEF THEN Add(Xref(h, ans), r1, g7s("FAMS", Ref(ans), <<>>)) ELSE h
               hf == IF p2 # UNDEF THEN Add(Xref(he, ans), r2, g7s("FAMS", Ref(ans), <<>>)) ELSE he
           IN  [h |-> hf, n |-> ans]
      ELSE LET r1 == IF p1 # UNDEF THEN Lookup(h.records, PersonKey(p1)) ELSE NoNode
               r2 == IF p2 # UNDEF THEN Lookup(h.records, PersonKey(p2)) ELSE NoNode
               ha == IF p1 # UNDEF THEN Xref(h, r1) ELSE h
               hb == IF p2 # UNDEF THEN Xref(ha, r2) ELSE ha
               hc == Alloc(hb, g7s("FAM", Null,
                                   <<IF p1 # UNDEF THEN g7s("HUSB", Ref(r1), <<>>) ELSE Null,
                                     IF p2 # UNDEF THEN g7s("WIFE", Ref(r2), <<>>) ELSE Null>>))
               ans == Len(hc.nodes)
               hd == [hc EXCEPT !.records = Put(@, id, ans)]
               he == IF p1 # UNDEF THEN Add(Xref(hd, ans), r1, g7s("FAMS", Ref(ans), <<>>)) ELSE hd
               hf == IF p2 # UNDEF THEN Add(Xref(he, ans), r2, g7s("FAMS", Ref(ans), <<>>)) ELSE he
           IN  [h |-> hf, n |-> ans]

\* makeOrFindFam, given the resourceId of each participant (UNDEF: the
\* participant is absent).
makeOrFindFam(h, p1, p2) ==
  LET id == CoupleKey(p1, p2)
  IN  IF HasKey(h.records, id) THEN [h |-> h, n |-> Lookup(h.records, id)]
      ELSE LET r1 == IF p1 # UNDEF THEN Lookup(h.records, PersonKey(p1)) ELSE NoNode
               r2 == IF p2 # UNDEF THEN Lookup(h.records, PersonKey(p2)) ELSE NoNode
               ha == IF p1 # UNDEF THEN Xref(h, r1) ELSE h
               hb == IF p2 # UNDEF THEN Xref(ha, r2) ELSE ha
               hc == Alloc(hb, g7s("FAM", Null,
                                   <<IF p1 # UNDEF THEN g7s("HUSB", Ref(r1), <<>>) ELSE Null,
                                     IF p2 # UNDEF THEN g7s("WIFE", Ref(r2), <<>>) ELSE Null>>))
               ans == Len(hc.nodes)
               hd == [hc EXCEPT !.records = Put(@, id, ans)]
               he == IF p1 # UNDEF THEN Add(Xref(hd, ans), r1, g7s("FAMS", Ref(ans), <<>>)) ELSE hd
               hf == IF p2 # UNDEF THEN Add(Xref(he, ans), r2, g7s("FAMS", Ref(ans), <<>>)) ELSE he
           IN  [h |-> hf, n |-> ans]

(***************************************************************************)
(* The relationship pass.                                                  *)
(***************************************************************************)
\* A variant of EnsurePerson that registers a stub also for a registered id.
EnsurePersonAlwaysStubs(h, rid) ==
  LET h1 == Alloc(h, g7s("INDI", Null, <<PersonExid(rid)>>))
  IN  [h1 EXCEPT !.records = Put(@, PersonKey(rid), Len(h1.nodes))]

\* The stub INDI record doRelationship1 registers for an unlisted participant.
EnsurePerson(h, rid) ==
  IF HasKey(h.records, PersonKey(rid)) THEN h
  ELSE LET h1 == Alloc(h, g7s("INDI", Null, <<PersonExid(rid)>>))
       IN  [h1 EXCEPT !.records = Put(@, PersonKey(rid), Len(h1.nodes))]

\* doRelationship1: a Couple relationship makes or finds its FAM record.
doRelationship1(h, r) ==
  IF r.type # "http://gedcomx.org/Couple" THEN h
  ELSE LET h1 == EnsurePerson(EnsurePerson(h, r.person1), r.person2)
           m == makeOrFindFam(h1, r.person1, r.person2)
           h2 == Add(m.h, m.n,
                     g7s("EXID", Text(r.id),
                         <<g7s("TYPE", Text("https://gedcom.io/exid-type/FamilySearch-RelationshipId"), <<>>)>>))
           h3 == AddFacts(h2, m.n, r.facts, TRUE)
       IN  IF h3.thrown # "" THEN h3 ELSE AddSources(h3, m.n, r.sources)

(***************************************************************************)
(* The generation-code pass.                                               *)
(***************************************************************************)
\* s.paylaod: the property the first loop of isWife reads; no node has it.
Paylaod(s) == UNDEF

\* isWife: "true", "false" or "null" (the guess whether per is a WIFE).
isWife(h, per) ==
  LET subs == h.nodes[per].subs
      sex == SelectSeq(subs, LAMBDA s : s.tag = "SEX" /\ Paylaod(s) \in {"F", "M"})
      fams == SelectSeq(subs, LAMBDA s : s.tag = "FAMS")
      Roles(f) == SelectSeq(h.nodes[f.payload.n].subs,
                            LAMBDA x : x.tag \in {"WIFE", "HUSB"} /\ x.payload = Ref(per))
      last == IF fams = <<>> THEN <<>>
              ELSE LET withRole == SelectSeq(fams, LAMBDA f : Roles(f) # <<>>)
                   IN  IF withRole = <<>> THEN <<>> ELSE Roles(withRole[Len(withRole)])
  IN  IF sex # <<>> THEN (IF Paylaod(sex[Len(sex)]) = "F" THEN "true" ELSE "false")
      ELSE IF last = <<>> THEN "null"
      ELSE IF last[Len(last)].tag = "WIFE" THEN "true" ELSE "false"

\* The index in subs of the k-th CHIL substructure, 0 when there are fewer.
RECURSIVE ChilIndex(_, _, _)
ChilIndex(subs, k, i) ==
  IF i > Len(subs) THEN 0
  ELSE IF subs[i].tag = "CHIL" THEN (IF k = 1 THEN i ELSE ChilIndex(subs, k - 1, i + 1))
  ELSE ChilIndex(subs, k, i + 1)

\* The number of CHIL substructures.
ChilCount(subs) == Len(SelectSeq(subs, LAMBDA s : s.tag = "CHIL"))

\* n copies of the VOID child.
RECURSIVE Voids(_)
Voids(n) == IF n <= 0 THEN <<>> ELSE <<g7s("CHIL", VOID, <<>>)>> \o Voids(n - 1)

\* A variant of PlaceChild that pads with one VOID child too many.
PlaceChildPadsOneMore(h, fam, per, chilnum) ==
  IF SelectSeq(h.nodes[fam].subs, LAMBDA s : s.tag = "CHIL" /\ s.payload = Ref(per)) # <<>>
  THEN h
  ELSE LET h1 == Add(Xref(h, fam), per, g7s("FAMC", Ref(fam), <<>>))
           subs == h1.nodes[fam].subs
           i == ChilIndex(subs, chilnum, 1)
           left == chilnum - ChilCount(subs)
       IN  IF i # 0 /\ subs[i].payload = VOID
             THEN [h1 EXCEPT !.nodes[fam].subs[i].payload = Ref(per)]
           ELSE IF i # 0
             THEN [Xref(h1, per) EXCEPT !.nodes[fam].subs =
                     SubSeq(subs, 1, i - 1) \o <<g7s("CHIL", Ref(per), <<>>)>> \o SubSeq(subs, i, Len(subs))]
           ELSE IF left > 0
             THEN [Xref(h1, per) EXCEPT !.nodes[fam].subs =
                     subs \o Voids(left) \o <<g7s("CHIL", Ref(per), <<>>)>>]
           ELSE h1

\* A variant of PlaceChild that overwrites the entry of an occupied position.
PlaceChildOverwrites(h, fam, per, chilnum) ==
  IF SelectSeq(h.nodes[fam].subs, LAMBDA s : s.tag = "CHIL" /\ s.payload = Ref(per)) # <<>>
  THEN h
  ELSE LET h1 == Add(Xref(h, fam), per, g7s("FAMC", Ref(fam), <<>>))
           subs == h1.nodes[fam].subs
           i == ChilIndex(subs, chilnum, 1)
           left == chilnum - ChilCount(subs)
       IN  IF i # 0 /\ subs[i].payload = VOID
             THEN [h1 EXCEPT !.nodes[fam].subs[i].payload = Ref(per)]
           ELSE IF i # 0
             THEN [Xref(h1, per) EXCEPT !.nodes[fam].subs[i] = g7s("CHIL", Ref(per), <<>>)]
           ELSE IF left > 0
             THEN [Xref(h1, per) EXCEPT !.nodes[fam].subs =
                     subs \o Voids(left - 1) \o <<g7s("CHIL", Ref(per), <<>>)>>]
           ELSE h1

\* The child branch once the family is known: place per as child chilnum.
PlaceChild(h, fam, per, chilnum) ==
  IF SelectSeq(h.nodes[fam].subs, LAMBDA s : s.tag = "CHIL" /\ s.payload = Ref(per)) # <<>>
  THEN h
  ELSE LET h1 == Add(Xref(h, fam), per, g7s("FAMC", Ref(fam), <<>>))
           subs == h1.nodes[fam].subs
           i == ChilIndex(subs, chilnum, 1)
           left == chilnum - ChilCount(subs)
       IN  IF i # 0 /\ subs[i].payload = VOID
             THEN [h1 EXCEPT !.nodes[fam].subs[i].payload = Ref(per)]
           ELSE IF i # 0
             THEN [Xref(h1, per) EXCEPT !.nodes[fam].subs =
                     SubSeq(subs, 1, i - 1) \o <<g7s("CHIL", Ref(per), <<>>)>> \o SubSeq(subs, i, Len(subs))]
           ELSE IF left > 0
             THEN [Xref(h1, per) EXCEPT !.nodes[fam].subs =
                     subs \o Voids(left - 1) \o <<g7s("CHIL", Ref(per), <<>>)>>]
           ELSE h1

\* A variant of SetFamIfAbsent that records nothing.
SetFamNever(fo, num, fam) == fo

\* famof[num] = fam unless num is already in famof.
SetFamIfAbsent(fo, num, fam) == IF num \in DOMAIN fo THEN fo ELSE (num :> fam) @@ fo

\* The resourceId of a table entry, UNDEF when the entry is absent.
ResourceIdOf(h, num) ==
  IF num \in DOMAIN h.gennumber THEN h.nodes[h.gennumber[num]].resourceId ELSE UNDEF

\* The spouse branch: num is prev-S..., per2 is the person at prev.
SpouseBranch(h, num, per, per2) ==
  LET w == isWife(h, per)
      wife == IF w \in {"true", "false"} THEN w = "true" ELSE isWife(h, per2) # "true"
      father == IF wife THEN per2 ELSE per
      mother == IF wife THEN per ELSE per2
      m == makeOrFindFam(h, h.nodes[father].resourceId, h.nodes[mother].resourceId)
  IN  [m.h EXCEPT !.famof = SetFamIfAbsent(@, num, m.n)]

\* The child branch: num is prev.k; the default family of prev is made when
\* famof has none.  makeOrfindFam (sic) is not defined: calling it throws.
ChildBranch(h, num, per, per2) ==
  LET prev == Prev(num)
      known == prev \in DOMAIN h.famof
  IN  IF ~known /\ isWife(h, per2) = "true" THEN Throw(h, "ReferenceError")
      ELSE LET m == IF known THEN [h |-> h, n |-> h.famof[prev]]
                    ELSE makeOrFindFam(h, h.nodes[per2].resourceId, UNDEF)
               h1 == IF known THEN m.h ELSE [m.h EXCEPT !.famof = (prev :> m.n) @@ @]
           IN  PlaceChild(h1, m.n, per, DecimalValue(Here(num)))

\* A variant of AhnentafelBranch that looks for the mother at 2n+2.
AhnentafelBranchMotherOffByOne(h, num, per) ==
  LET father == DecimalString(DecimalValue(num) * 2)
      mother == DecimalString(DecimalValue(num) * 2 + 2)
  IN  IF father \in DOMAIN h.gennumber \/ mother \in DOMAIN h.gennumber
      THEN LET m == makeOrFindFam(h, ResourceIdOf(h, father), ResourceIdOf(h, mother))
               h1 == Add(Xref(m.h, per), m.n, g7s("CHIL", Ref(per), <<>>))
               h2 == Add(Xref(h1, m.n), per, g7s("FAMC", Ref(m.n), <<>>))
           IN  [h2 EXCEPT !.famof = SetFamIfAbsent(SetFamIfAbsent(@, father, m.n), mother, m.n)]
      ELSE h

\* The Ahnentafel branch: the family of the persons at 2n and 2n+1.
AhnentafelBranch(h, num, per) ==
  LET father == DecimalString(DecimalValue(num) * 2)
      mother == DecimalString(DecimalValue(num) * 2 + 1)
  IN  IF father \in DOMAIN h.gennumber \/ mother \in DOMAIN h.gennumber
      THEN LET m == makeOrFindFam(h, ResourceIdOf(h, father), ResourceIdOf(h, mother))
               h1 == Add(Xref(m.h, per), m.n, g7s("CHIL", Ref(per), <<>>))
               h2 == Add(Xref(h1, m.n), per, g7s("FAMC", Ref(m.n), <<>>))
           IN  [h2 EXCEPT !.famof = SetFamIfAbsent(SetFamIfAbsent(@, father, m.n), mother, m.n)]
      ELSE h

\* A variant of doGenerationCode that skips an entry whose prefix has no person.
doGenerationCodeSkipsOrphan(h, num, per) ==
  IF IncludesDashS(num) \/ IncludesDot(num)
  THEN IF SplitAt(num) = 0 THEN Throw(h, "TypeError")
       ELSE IF Prev(num) \notin DOMAIN h.gennumber THEN h
       ELSE IF Here(num)[1] = "S" THEN SpouseBranch(h, num, per, h.gennumber[Prev(num)])
       ELSE ChildBranch(h, num, per, h.gennumber[Prev(num)])
  ELSE AhnentafelBranch(h, num, per)

\* doGenerationCode([num, per])
doGenerationCode(h, num, per) ==
  IF IncludesDashS(num) \/ IncludesDot(num)
  THEN IF SplitAt(num) = 0 THEN Throw(h, "TypeError")
       ELSE IF Prev(num) \notin DOMAIN h.gennumber THEN Throw(h, "Error: Generation number")
       ELSE IF Here(num)[1] = "S" THEN SpouseBranch(h, num, per, h.gennumber[Prev(num)])
       ELSE ChildBranch(h, num, per, h.gennumber[Prev(num)])
  ELSE AhnentafelBranch(h, num, per)

(***************************************************************************)
(* Serialization and assembly.                                             *)
(***************************************************************************)
\* The characters `\n${level+1} CONT ` as tokens: the line break, the level,
\* the tag and the separating space.
ContMark(level) == <<"\n", DigitChar(level + 1), " CONT", " ">>

\* A variant of ContText that merges an empty line into the next one.
RECURSIVE ContTextDropsEmpty(_, _)
ContTextDropsEmpty(t, level) ==
  IF t = <<>> THEN <<>>
  ELSE IF Head(t) = "\n" /\ (Len(t) = 1 \/ t[2] = "\n") THEN ContTextDropsEmpty(Tail(t), level)
  ELSE IF Head(t) = "\n" /\ t[2] = "@"
    THEN ContMark(level) \o <<"@", "@">> \o ContTextDropsEmpty(SubSeq(t, 3, Len(t)), level)
  ELSE IF Head(t) = "\n" THEN ContMark(level) \o ContTextDropsEmpty(Tail(t), level)
  ELSE <<Head(t)>> \o ContTextDropsEmpty(Tail(t), level)

\* payload.replace(/\n(@?)/g, `\n${level+1} CONT $1$1`)
RECURSIVE ContText(_, _)
ContText(t, level) ==
  IF t = <<>> THEN <<>>
  ELSE IF Head(t) = "\n" /\ Len(t) > 1 /\ t[2] = "@"
    THEN ContMark(level) \o <<"@", "@">> \o ContText(SubSeq(t, 3, Len(t)), level)
  ELSE IF Head(t) = "\n" THEN ContMark(level) \o ContText(Tail(t), level)
  ELSE <<Head(t)>> \o ContText(Tail(t), level)

\* The lines of a text: its parts between the line breaks.
RECURSIVE SplitLines(_)
SplitLines(t) ==
  IF \A i \in 1..Len(t) : t[i] # "\n" THEN <<t>>
  ELSE LET i == CHOOSE j \in 1..Len(t) : t[j] = "\n" /\ \A m \in 1..(j - 1) : t[m] # "\n"
       IN  <<SubSeq(t, 1, i - 1)>> \o SplitLines(SubSeq(t, i + 1, Len(t)))

\* /^([0-9]+ CONT) $/ on one line
IsBareCont(line) == Len(line) = 3 /\ line[1] \in Digit /\ line[2] = " CONT" /\ line[3] = " "

\* txt.replace(/^([0-9]+ CONT) $/mg, "$1"), line by line
StripBareCont(lines) ==
  [i \in 1..Len(lines) |-> IF IsBareCont(lines[i]) THEN SubSeq(lines[i], 1, 2) ELSE lines[i]]

\* What toString appends to the level, anchor and tag for a text of
\* characters, as lines: ' @'+txt, txt or ' '+txt.
PayloadLines(t, level) ==
  LET txt == StripBareCont(SplitLines(ContText(t, level)))
  IN  IF t[1] = "@" THEN [txt EXCEPT ![1] = <<" ", "@">> \o @]
      ELSE IF t[1] = "\n" THEN txt
      ELSE [txt EXCEPT ![1] = <<" ">> \o @]

\* The value a line shows after the separating space.
ValueOf(part) == IF part # <<>> /\ part[1] = " " THEN Chars(Tail(part)) ELSE Chars(part)

\* The line g7s.prototype.toString starts with: level, anchor, tag and the
\* rendered payload (a pointer shows the target's id, null when it has none).
LineOf(heap, node, level) ==
  [level |-> level, xref |-> node.id, tag |-> node.tag,
   value |-> IF node.payload.k = "ref"
               THEN [k |-> "ptr", n |-> heap[node.payload.n].id, s |-> "", t |-> <<>>]
             ELSE IF node.payload.k = "text" /\ node.payload.t # <<>>
               THEN ValueOf(PayloadLines(node.payload.t, level)[1])
             ELSE node.payload]

\* The continuation lines that follow the line of a node with a text of
\* characters: each starts with its level and the tag CONT.
ContLines(node, level) ==
  IF node.payload.k = "text" /\ node.payload.t # <<>>
  THEN LET lines == PayloadLines(node.payload.t, level)
       IN  [i \in 1..(Len(lines) - 1) |->
              [level |-> DigitValue(lines[i + 1][1]), xref |-> 0, tag |-> "CONT",
               value |-> ValueOf(SubSeq(lines[i + 1], 3, Len(lines[i + 1])))]]
  ELSE <<>>

\* g7s.prototype.toString(level): the node's lines, then its substructures'.
RECURSIVE Serialize(_, _, _)
RECURSIVE SerializeAll(_, _, _)
Serialize(heap, node, level) ==
  <<LineOf(heap, node, level)>> \o ContLines(node, level) \o SerializeAll(heap, node.subs, level + 1)

SerializeAll(heap, subs, level) ==
  IF subs = <<>> THEN <<>>
  ELSE Serialize(heap, Head(subs), level) \o SerializeAll(heap, Tail(subs), level)

\* header, after header.add(g7s('SCHMA', null, ...extensions)) with no extension.
header ==
  g7s("HEAD", Null, <<g7s("GEDC", Null, <<g7s("VERS", Text("7.0"), <<>>)>>),
                      g7s("SCHMA", Null, <<>>)>>)

trailer == g7s("TRLR", Null, <<>>)

\* Ascending numeric order of the registry entries whose key is an array index.
RECURSIVE IndexOrder(_)
IndexOrder(S) ==
  IF S = {} THEN <<>>
  ELSE LET m == CHOOSE e \in S : \A o \in S : ArrayIndexValue(e.key) <= ArrayIndexValue(o.key)
       IN  <<m>> \o IndexOrder(S \ {m})

\* Object.values(records): array-index keys first, ascending; then the other
\* keys in the order of their creation.
ObjectValues(recs) ==
  LET idx == IndexOrder({recs[i] : i \in {j \in 1..Len(recs) : recs[j].key \in ArrayIndexKeys}})
      rest == SelectSeq(recs, LAMBDA e : e.key \notin ArrayIndexKeys)
      all == idx \o rest
  IN  [i \in 1..Len(all) |-> all[i].node]

\* The records' serializations joined: Object.values(records).join('')
RECURSIVE JoinRecords(_, _)
JoinRecords(heap, ns) ==
  IF ns = <<>> THEN <<>>
  ELSE Serialize(heap, heap[Head(ns)], 0) \o JoinRecords(heap, Tail(ns))

\* header + Object.values(records).join('') + trailer
Document(heap, recs) ==
  Serialize(heap, header, 0) \o JoinRecords(heap, ObjectValues(recs)) \o Serialize(heap, trailer, 0)

(***************************************************************************)
(* The source graphs the call is given.                                    *)
(***************************************************************************)
\* The number of person objects and of relationship objects in a graph.
MaxPersons == 5

MaxRelationships == 2

\* The id of the i-th person object.
PersonId(i) == StrOrder[i]

NoKey == <<>>

\* A person object without its id: gender type, display.ascendancyNumber,
\* display.descendancyNumber, sources, facts.
Person(gender, asc, desc, sources, facts) ==
  [gender |-> gender, asc |-> asc, desc |-> desc, sources |-> sources, facts |-> facts]

Numbered(asc, desc) == Person(UNDEF, asc, desc, <<>>, <<>>)

SourceRef(id, descriptionId) == [id |-> id, descriptionId |-> descriptionId]

\* A fact object: type and value (characters; NoValue when it has none).
Fact(type, value) == [type |-> type, value |-> value]

NoValue == <<>>

\* A relationship object: type, the resourceIds of person1 and person2, id,
\* facts, sources.
Relationship(type, p1, p2, id, facts, sources) ==
  [type |-> type, person1 |-> p1, person2 |-> p2, id |-> id, facts |-> facts,
   sources |-> sources]

\* The sequences of at most n distinct members of S.
Arrangements(S, n) ==
  UNION {{s \in [1..k -> S] : \A i, j \in 1..k : i # j => s[i] # s[j]} : k \in 0..n}

\* Ancestors numbered 1, 2, 3 and children of the persons at 2 and 3.
AhnentafelPersons ==
  {Numbered(<<"1">>, NoKey), Numbered(<<"2">>, NoKey), Numbered(<<"3">>, NoKey),
   Numbered(NoKey, <<"2", ".", "3">>), Numbered(NoKey, <<"3", ".", "2">>)}

\* The person numbered 5 with spouses and children.
DAbovillePersons ==
  {Numbered(<<"5">>, NoKey), Numbered(NoKey, <<"5", "-", "S">>),
   Numbered(NoKey, <<"5", ".", "1">>), Numbered(NoKey, <<"5", ".", "3">>),
   Numbered(NoKey, <<"5", ".", "0">>)}

\* The person at 5 with a second and a tenth child.
LargeFamilyPersons ==
  {Numbered(<<"5">>, NoKey), Numbered(NoKey, <<"5", ".", "2">>),
   Numbered(NoKey, <<"5", ".", "1", "0">>)}

\* The person at 5 and a spouse, with gender markers.
GenderedPersons ==
  {Person("http://gedcomx.org/Female", <<"5">>, NoKey, <<>>, <<>>),
   Person("http://gedcomx.org/Male", <<"5">>, NoKey, <<>>, <<>>),
   Person("http://gedcomx.org/Female", NoKey, <<"5", "-", "S">>, <<>>, <<>>),
   Person("http://gedcomx.org/Male", NoKey, <<"5", "-", "S">>, <<>>, <<>>)}

\* The person at 5 and a child, for the graphs with a couple relationship
\* between the first two persons.
MarriedPersons == {Numbered(<<"5">>, NoKey), Numbered(NoKey, <<"5", ".", "1">>)}

\* Persons who carry an ascendancy and a descendancy number.
TwiceNumberedPersons ==
  {Numbered(<<"1">>, <<"1", "0">>), Numbered(<<"2">>, <<"2", "0">>),
   Numbered(<<"3">>, NoKey), Numbered(<<"1">>, NoKey),
   Numbered(<<"1">>, <<"2", ".", "1">>)}

\* Persons with source references and facts.
SourcedPersons ==
  {Numbered(NoKey, NoKey),
   Person(UNDEF, NoKey, NoKey, <<SourceRef("7", "D7")>>, <<>>),
   Person(UNDEF, NoKey, NoKey, <<SourceRef("3", UNDEF), SourceRef("S1", UNDEF)>>, <<>>),
   Person(UNDEF, NoKey, NoKey, <<>>, <<Fact("http://gedcomx.org/Bogus", NoValue)>>),
   Person(UNDEF, NoKey, NoKey, <<SourceRef("S1", UNDEF)>>, <<Fact("http://gedcomx.org/Birth", NoValue)>>)}

\* The longest value of a fact, in characters.
MaxText == 3

\* The characters of the values: a letter, the at sign, line feed and
\* carriage return.
TextChars == {"a", "@", "\n", "\r"}

Texts == UNION {[1..k -> TextChars] : k \in 0..MaxText}

\* A person with one fact that has a value: a FACT with the value and a TYPE
\* substructure, or an EVEN with the value in a NOTE substructure.
NotedPersons ==
  {Person(UNDEF, NoKey, NoKey, <<>>, <<Fact(ty, v)>>) :
     ty \in {"http://gedcomx.org/Clan", "http://gedcomx.org/Visit"}, v \in Texts}

\* Persons whose source references carry a descriptionId and no id.
UnidentifiedSourcePersons ==
  {Person(UNDEF, NoKey, NoKey, <<SourceRef(UNDEF, "D1"), SourceRef(UNDEF, "D2")>>, <<>>),
   Person(UNDEF, NoKey, NoKey, <<SourceRef(UNDEF, "D2")>>, <<>>)}

\* Persons of the graphs that also hold relationships.
RelatedPersons ==
  {Numbered(<<"1">>, NoKey), Numbered(<<"2">>, NoKey), Numbered(<<"3">>, NoKey)}

Relationships ==
  {Relationship("http://gedcomx.org/Couple", "P1", "P2", "R1", <<>>, <<>>),
   Relationship("http://gedcomx.org/Couple", "P2", "P1", "R2",
                <<Fact("http://gedcomx.org/Marriage", NoValue)>>, <<SourceRef("S1", UNDEF)>>),
   Relationship("http://gedcomx.org/Couple", "P3", "P2", "R3", <<>>, <<SourceRef("7", UNDEF)>>),
   Relationship("http://gedcomx.org/ParentChild", "P1", "P2", "R5", <<>>, <<>>),
   Relationship("http://gedcomx.org/Couple", "P1", "P2", "R6",
                <<Fact("http://gedcomx.org/Bogus", NoValue)>>, <<>>)}

\* The couple relationships between the first two persons, in both orders.
Marriages == {r \in Relationships : r.id \in {"R1", "R2"}}

\* The person objects with their ids.
WithIds(ps) == [i \in 1..Len(ps) |-> [id |-> PersonId(i)] @@ ps[i]]

Graph(ps, rs) == [persons |-> WithIds(ps), relationships |-> rs]

Inputs ==
  {Graph(ps, <<>>) :
     ps \in Arrangements(AhnentafelPersons, MaxPersons)
            \cup Arrangements(DAbovillePersons, MaxPersons)
            \cup Arrangements(TwiceNumberedPersons, MaxPersons)
            \cup Arrangements(SourcedPersons, MaxPersons)
            \cup Arrangements(GenderedPersons, MaxPersons)
            \cup Arrangements(LargeFamilyPersons, MaxPersons)
            \cup Arrangements(UnidentifiedSourcePersons, MaxPersons)
            \cup {<<p>> : p \in NotedPersons}}
  \cup {Graph(ps, rs) : ps \in Arrangements(RelatedPersons, MaxPersons),
                        rs \in Arrangements(Relationships, MaxRelationships)}
  \cup {Graph(ps, rs) : ps \in Arrangements(MarriedPersons, MaxPersons),
                        rs \in Arrangements(Marriages, MaxRelationships)}

(***************************************************************************)
(* The call.                                                               *)
(***************************************************************************)
\* The calls made with one graph.
MaxCalls == 2

\* The global per2 before its first assignment; afterwards it holds a node of
\* the heap of the call that assigned it.
NoPer2 == [call |-> 0, n |-> NoNode]

Init ==
  /\ gx \in Inputs
  /\ pc = "run"
  /\ pi = 1
  /\ ri = 1
  /\ todo = <<>>
  /\ nodes = <<>>
  /\ records = <<>>
  /\ nextXrefID = 0
  /\ gennumber = <<>>
  /\ famof = <<>>
  /\ errors = <<>>
  /\ thrown = ""
  /\ doc = <<>>
  /\ emitted = <<>>
  /\ call = 1
  /\ returned = <<>>
  /\ globalPer2 = NoPer2

\* The closure state after a helper ran; an exception ends the call.
Becomes(h) ==
  /\ nodes' = h.nodes
  /\ records' = h.records
  /\ nextXrefID' = h.nextXrefID
  /\ gennumber' = h.gennumber
  /\ famof' = h.famof
  /\ errors' = h.errors
  /\ thrown' = h.thrown
  /\ pc' = IF h.thrown # "" THEN "thrown" ELSE pc

\* gx.persons?.forEach(doPerson), one person
DoPerson ==
  /\ pc = "run"
  /\ pi <= Len(gx.persons)
  /\ Becomes(doPerson(Store, gx.persons[pi]))
  /\ pi' = pi + 1
  /\ UNCHANGED <<gx, ri, todo, doc, emitted, call, returned, globalPer2>>

\* gx.relationships?.forEach(doRelationship1), one relationship
DoRelationship1 ==
  /\ pc = "run"
  /\ pi > Len(gx.persons)
  /\ ri <= Len(gx.relationships)
  /\ Becomes(doRelationship1(Store, gx.relationships[ri]))
  /\ ri' = ri + 1
  /\ UNCHANGED <<gx, pi, todo, doc, emitted, call, returned, globalPer2>>

\* Object.entries(gennumber).sort(...)
SortEntries ==
  /\ pc = "run"
  /\ pi > Len(gx.persons)
  /\ ri > Len(gx.relationships)
  /\ todo' = SortKeys(DOMAIN gennumber)
  /\ pc' = "generation"
  /\ UNCHANGED <<gx, pi, ri, nodes, records, nextXrefID, gennumber, famof, errors, thrown,
                 doc, emitted, call, returned, globalPer2>>

\* per2 = gennumber[prev]: the assignment to the undeclared per2, reached by
\* a D'Aboville key whose prefix has a person.
AssignsPer2(num) ==
  /\ IncludesDashS(num) \/ IncludesDot(num)
  /\ SplitAt(num) # 0
  /\ Prev(num) \in DOMAIN gennumber

\* .forEach(doGenerationCode), one entry
DoGenerationCode ==
  /\ pc = "generation"
  /\ todo # <<>>
  /\ Becomes(doGenerationCode(Store, Head(todo), gennumber[Head(todo)]))
  /\ globalPer2' = IF AssignsPer2(Head(todo))
                   THEN [call |-> call, n |-> gennumber[Prev(Head(todo))]]
                   ELSE globalPer2
  /\ todo' = Tail(todo)
  /\ UNCHANGED <<gx, pi, ri, doc, emitted, call, returned>>

\* return header + Object.values(records).join('') + trailer
Assemble ==
  /\ pc = "generation"
  /\ todo = <<>>
  /\ doc' = Document(nodes, records)
  /\ emitted' = ObjectValues(records)
  /\ pc' = "done"
  /\ returned' = Append(returned, Document(nodes, records))
  /\ UNCHANGED <<gx, pi, ri, todo, nodes, records, nextXrefID, gennumber, famof, errors, thrown,
                 call, globalPer2>>

\* A variant of CallAgain in which g7s.nextXrefID outlives the call.
CallAgainKeepsCounter ==
  /\ pc = "done"
  /\ call < MaxCalls
  /\ call' = call + 1
  /\ pc' = "run"
  /\ pi' = 1
  /\ ri' = 1
  /\ todo' = <<>>
  /\ nodes' = <<>>
  /\ records' = <<>>
  /\ gennumber' = <<>>
  /\ famof' = <<>>
  /\ doc' = <<>>
  /\ emitted' = <<>>
  /\ UNCHANGED <<gx, nextXrefID, errors, thrown, returned, globalPer2>>

\* The caller calls GEDCOMXTo7 again with the same graph: the call builds its
\* own g7s with nextXrefID = 0, records, gennumber and famof; the graph, the
\* documents the caller holds and the global per2 stay.
CallAgain ==
  /\ pc = "done"
  /\ call < MaxCalls
  /\ call' = call + 1
  /\ pc' = "run"
  /\ pi' = 1
  /\ ri' = 1
  /\ todo' = <<>>
  /\ nodes' = <<>>
  /\ records' = <<>>
  /\ nextXrefID' = 0
  /\ gennumber' = <<>>
  /\ famof' = <<>>
  /\ doc' = <<>>
  /\ emitted' = <<>>
  /\ UNCHANGED <<gx, errors, thrown, returned, globalPer2>>

\* One call of GEDCOMXTo7.
Next == DoPerson \/ DoRelationship1 \/ SortEntries \/ DoGenerationCode \/ Assemble

Spec == Init /\ [][Next]_vars

\* Successive calls with the same graph.
NextCalls ==
  DoPerson \/ DoRelationship1 \/ SortEntries \/ DoGenerationCode \/ Assemble \/ CallAgain

SpecCalls == Init /\ [][NextCalls]_vars

(***************************************************************************)
(* Properties.                                                             *)
(***************************************************************************)
\* The heap handles of the nodes with a tag.
NodesTagged(heap, tag) == {n \in 1..Len(heap) : heap[n].tag = tag}

\* The payloads of a node's substructures with a tag, in order.
PayloadsOf(subs, tag) ==
  LET sel == SelectSeq(subs, LAMBDA s : s.tag = tag)
  IN  [i \in 1..Len(sel) |-> sel[i].payload]

\* The nodes a node's substructures with a tag refer to.
RefsOf(subs, tag) ==
  {subs[i].payload.n : i \in {j \in 1..Len(subs) : subs[j].tag = tag /\ subs[j].payload.k = "ref"}}

\* The persons a family-group joins.
Couple(heap, f) == RefsOf(heap[f].subs, "HUSB") \cup RefsOf(heap[f].subs, "WIFE")

\* The resourceIds a family-group is requested for (UNDEF: no participant).
Participants == {PersonId(i) : i \in 1..MaxPersons} \cup {UNDEF}

\* The source references a record is requested for.
SourceRefs ==
  {SourceRef("S1", UNDEF), SourceRef("7", "D7"), SourceRef("7", UNDEF),
   SourceRef("3", UNDEF), SourceRef(UNDEF, UNDEF)}

Registered(recs, n) == \E i \in 1..Len(recs) : recs[i].node = n

\* A request for a key the registry holds returns the held node and changes
\* nothing.
Refound(h) ==
  /\ \A s \in SourceRefs :
       HasKey(h.records, PropKey(s.id))
         => doSource(h, s) = [h |-> h, n |-> Lookup(h.records, PropKey(s.id))]
  /\ \A a, b \in Participants :
       HasKey(h.records, CoupleKey(a, b))
         => makeOrFindFam(h, a, b) = [h |-> h, n |-> Lookup(h.records, CoupleKey(a, b))]

\* A step keeps every registry entry bound to its node, and the node keeps
\* its tag and the substructures it has.
Stable ==
  \A i \in 1..Len(records) :
    /\ i <= Len(records')
    /\ records'[i] = records[i]
    /\ nodes'[records[i].node].tag = nodes[records[i].node].tag
    /\ Len(nodes'[records[i].node].subs) >= Len(nodes[records[i].node].subs)

\* No SOUR or FAM node exists beside the one the registry holds.
NoneBesideRegistry(h) ==
  \A n \in NodesTagged(h.nodes, "SOUR") \cup NodesTagged(h.nodes, "FAM") : Registered(h.records, n)

\* C1: find-or-create is idempotent.  Every step of the conversion keeps each
\* registry key bound to the node it was first bound to, never builds a second
\* SOUR or FAM node for a key, keeps that node's substructures, and a request
\* (doSource, makeOrFindFam) for a held key returns the held node.
C1_IdempotentFindOrCreate ==
  [][Stable /\ NoneBesideRegistry(Store') /\ Refound(Store')]_vars

\* C1 witness: one SOUR record was obtained through two requests, and both
\* requesting records point to it.
C1_Witness ==
  \E n \in NodesTagged(nodes, "SOUR") :
    \E a, b \in 1..Len(nodes) :
      /\ a # b
      /\ n \in RefsOf(nodes[a].subs, "SOUR")
      /\ n \in RefsOf(nodes[b].subs, "SOUR")

\* C2: couple-key symmetry.  In every state, makeOrFindFam(A,B) followed by
\* makeOrFindFam(B,A) returns the same node and the second call changes
\* nothing, for all registered or absent A and B; and no two family-groups
\* join the same persons.
C2_CoupleKeySymmetry ==
  /\ \A a, b \in Participants :
       (/\ a # UNDEF => HasKey(records, PersonKey(a))
        /\ b # UNDEF => HasKey(records, PersonKey(b)))
         => LET r1 == makeOrFindFam(Store, a, b)
                r2 == makeOrFindFam(r1.h, b, a)
            IN  r2 = r1
  /\ \A f, g \in NodesTagged(nodes, "FAM") : f # g => Couple(nodes, f) # Couple(nodes, g)

\* C2 witness: the family-group made by the relationship pass for (P3,P2) was
\* found again by the generation pass for (person at 2, person at 3) = (P2,P3).
C2_Witness ==
  /\ <<"2">> \in DOMAIN gennumber /\ <<"3">> \in DOMAIN gennumber
  /\ \E f \in NodesTagged(nodes, "FAM") :
       /\ Text("R3") \in {nodes[f].subs[i].payload : i \in 1..Len(nodes[f].subs)}
       /\ RefsOf(nodes[f].subs, "HUSB") = {gennumber[<<"3">>]}
       /\ RefsOf(nodes[f].subs, "WIFE") = {gennumber[<<"2">>]}
       /\ RefsOf(nodes[f].subs, "CHIL") # {}

\* The graph of three persons with the Ahnentafel keys 1, 2, 3 and nothing else.
AhnentafelTrio ==
  /\ gx.relationships = <<>>
  /\ Len(gx.persons) = 3
  /\ {gx.persons[i].asc : i \in 1..3} = {<<"1">>, <<"2">>, <<"3">>}
  /\ \A i \in 1..3 : gx.persons[i].desc = NoKey

\* C3: for persons with the Ahnentafel keys 1, 2 and 3 in any input order, the
\* document holds exactly one FAM record, with one HUSB and one WIFE, the two
\* distinct persons at 2 and 3, and one CHIL, the person at 1, who has exactly
\* one FAMC, to that record.
C3_AhnentafelEndToEnd ==
  (pc = "done" /\ AhnentafelTrio) =>
    LET fams == {i \in 1..Len(emitted) : nodes[emitted[i]].tag = "FAM"}
        p1 == gennumber[<<"1">>]
        p2 == gennumber[<<"2">>]
        p3 == gennumber[<<"3">>]
    IN  /\ Cardinality(fams) = 1
        /\ NodesTagged(nodes, "FAM") = {emitted[i] : i \in fams}
        /\ \A i \in fams :
             LET f == emitted[i]
             IN  /\ Len(PayloadsOf(nodes[f].subs, "HUSB")) = 1
                 /\ Len(PayloadsOf(nodes[f].subs, "WIFE")) = 1
                 /\ p2 # p3
                 /\ Couple(nodes, f) = {p2, p3}
                 /\ PayloadsOf(nodes[f].subs, "CHIL") = <<Ref(p1)>>
                 /\ PayloadsOf(nodes[p1].subs, "FAMC") = <<Ref(f)>>

\* C3 witness: such a graph, listed in the order 3, 1, 2, has been converted.
C3_Witness ==
  /\ pc = "done"
  /\ AhnentafelTrio
  /\ gx.persons[1].asc = <<"3">>
  /\ gx.persons[2].asc = <<"1">>

\* The graph of four persons with the keys 5 (ascendancy), 5-S, 5.1 and 5.3
\* (descendancy), no gender markers and no relationships.
DAbovilleFour ==
  /\ gx.relationships = <<>>
  /\ Len(gx.persons) = 4
  /\ {<<gx.persons[i].asc, gx.persons[i].desc>> : i \in 1..4} =
       {<<(<<"5">>), NoKey>>, <<NoKey, (<<"5", "-", "S">>)>>,
        <<NoKey, (<<"5", ".", "1">>)>>, <<NoKey, (<<"5", ".", "3">>)>>}
  /\ \A i \in 1..4 : gx.persons[i].gender = UNDEF

\* C4: for the person at 5 and persons with the D'Aboville keys 5-S, 5.1 and
\* 5.3, the conversion produces one family-group: it joins the person at 5 with
\* the spouse at 5-S and its child list is [person 5.1, VOID, person 5.3].
C4_DAbovilleOneFamily ==
  (pc = "done" /\ DAbovilleFour) =>
    LET fams == {i \in 1..Len(emitted) : nodes[emitted[i]].tag = "FAM"}
    IN  /\ Cardinality(fams) = 1
        /\ \A i \in fams :
             /\ Couple(nodes, emitted[i]) = {gennumber[<<"5">>], gennumber[<<"5", "-", "S">>]}
             /\ PayloadsOf(nodes[emitted[i]].subs, "CHIL") =
                  <<Ref(gennumber[<<"5", ".", "1">>]), VOID, Ref(gennumber[<<"5", ".", "3">>])>>

\* The entry the generation pass takes next is a D'Aboville child key whose
\* prefix has a person, and the step does not throw.
ChildStep ==
  /\ pc = "generation"
  /\ todo # <<>>
  /\ IncludesDot(Head(todo))
  /\ SplitAt(Head(todo)) # 0
  /\ Prev(Head(todo)) \in DOMAIN gennumber
  /\ Here(Head(todo))[1] # "S"
  /\ pc' # "thrown"

\* The substructures of a node that are not CHIL, in order.
OtherSubs(subs) == SelectSeq(subs, LAMBDA s : s.tag # "CHIL")

\* The child list of a node of a heap; empty when the heap has no such node.
ChildList(heap, f) == IF f <= Len(heap) THEN PayloadsOf(heap[f].subs, "CHIL") ELSE <<>>

InList(x, list) == \E i \in 1..Len(list) : list[i] = x

\* C5: gap padding.  When a child with index k >= 1 that the family-group does
\* not hold yet is placed and the family-group has c < k child entries, the
\* child list becomes the old list, then k-1-c VOID entries, then the child;
\* when the k-th entry is VOID, the child takes its place and the other child
\* entries keep their number and order.  The family-group's other
\* substructures are untouched.
C5_GapPadding ==
  [][ChildStep =>
       LET per == gennumber[Head(todo)]
           k == DecimalValue(Here(Head(todo)))
           fam == famof'[Prev(Head(todo))]
           pre == ChildList(nodes, fam)
           post == ChildList(nodes', fam)
           c == Len(pre)
       IN  (k >= 1 /\ ~InList(Ref(per), pre)) =>
             /\ c < k => post = pre \o [i \in 1..(k - 1 - c) |-> VOID] \o <<Ref(per)>>
             /\ (c >= k /\ pre[k] = VOID) => post = [pre EXCEPT ![k] = Ref(per)]
             /\ fam <= Len(nodes) => OtherSubs(nodes'[fam].subs) = OtherSubs(nodes[fam].subs)
     ]_vars

\* C5 witness: in the family-group of the persons at 2 and 3, whose first child
\* is the person at 1, the child 2.3 was placed third behind one VOID entry and
\* the child 3.2 then took the place of that entry.
C5_Witness ==
  /\ {<<"1">>, <<"2", ".", "3">>, <<"3", ".", "2">>} \subseteq DOMAIN gennumber
  /\ <<"2">> \in DOMAIN famof
  /\ <<"3">> \in DOMAIN famof
  /\ famof[<<"2">>] = famof[<<"3">>]
  /\ PayloadsOf(nodes[famof[<<"2">>]].subs, "CHIL") =
       <<Ref(gennumber[<<"1">>]), Ref(gennumber[<<"3", ".", "2">>]),
         Ref(gennumber[<<"2", ".", "3">>])>>

\* C6: no family-group holds two CHIL entries for the same person.
C6_NoDuplicateChild ==
  \A f \in NodesTagged(nodes, "FAM") :
    LET list == PayloadsOf(nodes[f].subs, "CHIL")
    IN  \A i, j \in 1..Len(list) : (i # j /\ list[i].k = "ref") => list[i] # list[j]

AllDigits(num) == num # <<>> /\ \A i \in 1..Len(num) : num[i] \in Digit

\* The Ahnentafel key of the child of the person at a key: n for 2n and 2n+1.
ChildKey(prev) == DecimalString(DecimalValue(prev) \div 2)

\* A child step whose prefix is 2n or 2n+1 for a person at the Ahnentafel key n.
AhnentafelChildStep ==
  /\ ChildStep
  /\ AllDigits(Prev(Head(todo)))
  /\ DecimalValue(Prev(Head(todo))) >= 2
  /\ ChildKey(Prev(Head(todo))) \in DOMAIN gennumber

\* C7: Ahnentafel consistency.  When a person is at the Ahnentafel key n and a
\* D'Aboville child key has the prefix 2n or 2n+1 (with a person at it), the
\* step places its person into the family-group recorded at 2n and 2n+1, the
\* node that holds the person at n as a child: the step creates no node and
\* records no other family-group.
C7_AhnentafelConsistency ==
  [][AhnentafelChildStep =>
       LET prev == Prev(Head(todo))
           per == gennumber[Head(todo)]
           k == DecimalValue(Here(Head(todo)))
           n == DecimalValue(prev) \div 2
       IN  /\ prev \in DOMAIN famof
           /\ DecimalString(2 * n) \in DOMAIN famof
           /\ DecimalString(2 * n + 1) \in DOMAIN famof
           /\ famof[DecimalString(2 * n)] = famof[prev]
           /\ famof[DecimalString(2 * n + 1)] = famof[prev]
           /\ nodes[famof[prev]].tag = "FAM"
           /\ InList(Ref(gennumber[ChildKey(prev)]), ChildList(nodes, famof[prev]))
           /\ famof' = famof
           /\ Len(nodes') = Len(nodes)
           /\ records' = records
           /\ InList(Ref(famof[prev]), PayloadsOf(nodes'[per].subs, "FAMC"))
           /\ k >= 1 => InList(Ref(per), ChildList(nodes', famof[prev]))
     ]_vars

\* C7 witness: one family-group holds the person at 1 and the person at 2.3 as
\* children, and it is the only family-group.
C7_Witness ==
  /\ {<<"1">>, <<"2">>, <<"2", ".", "3">>} \subseteq DOMAIN gennumber
  /\ <<"2">> \in DOMAIN famof
  /\ InList(Ref(gennumber[<<"1">>]), ChildList(nodes, famof[<<"2">>]))
  /\ InList(Ref(gennumber[<<"2", ".", "3">>]), ChildList(nodes, famof[<<"2">>]))
  /\ NodesTagged(nodes, "FAM") = {famof[<<"2">>]}

IsDAboville(num) == IncludesDashS(num) \/ IncludesDot(num)

\* The entry the generation pass takes next is a D'Aboville key (spouse or
\* child) whose prefix has no person.
OrphanStep ==
  /\ pc = "generation"
  /\ todo # <<>>
  /\ IsDAboville(Head(todo))
  /\ SplitAt(Head(todo)) # 0
  /\ Prev(Head(todo)) \notin DOMAIN gennumber

\* C8: a missing ancestor is fatal.  The step for a D'Aboville key whose prefix
\* has no person throws, with no call of the error callback and no change to
\* any node, to the registry or to the families; no step follows a throw, so
\* no document is returned; and a document is returned only when every
\* D'Aboville key's prefix has a person.
C8_MissingAncestorFatal ==
  [][/\ pc # "thrown"
     /\ OrphanStep =>
          /\ pc' = "thrown"
          /\ thrown' = "Error: Generation number"
          /\ errors' = errors
          /\ nodes' = nodes
          /\ records' = records
          /\ famof' = famof
          /\ doc' = <<>>
     /\ pc' = "done" =>
          \A num \in DOMAIN gennumber : IsDAboville(num) => Prev(num) \in DOMAIN gennumber
    ]_vars

\* C8 witness: the generation pass threw for a missing prefix; the persons are
\* built, the error callback was not called and there is no document.
C8_Witness ==
  /\ pc = "thrown"
  /\ thrown = "Error: Generation number"
  /\ errors = <<>>
  /\ doc = <<>>
  /\ NodesTagged(nodes, "INDI") # {}

\* C9: an unknown fact type is recoverable: once the error callback has been
\* called for it, the conversion still goes on to return a document.
C9_UnknownFactRecoverable == errors # <<>> => pc # "thrown"

\* The registry's records in the order of their registration.
RegistrationOrder(recs) == [i \in 1..Len(recs) |-> recs[i].node]

\* C10: the returned document is the header, then every registry-held record
\* once, in the order of registration, then the trailer.
C10_RegistrationOrder ==
  pc = "done" =>
    /\ emitted = RegistrationOrder(records)
    /\ doc = Serialize(nodes, header, 0) \o JoinRecords(nodes, RegistrationOrder(records))
               \o Serialize(nodes, trailer, 0)

\* The number of line breaks of a text: CR LF, a CR alone or a LF alone.
RECURSIVE LineBreaks(_)
LineBreaks(v) ==
  IF v = <<>> THEN 0
  ELSE IF Head(v) = "\r"
    THEN 1 + LineBreaks(IF Len(v) > 1 /\ v[2] = "\n" THEN SubSeq(v, 3, Len(v)) ELSE Tail(v))
  ELSE IF Head(v) = "\n" THEN 1 + LineBreaks(Tail(v))
  ELSE LineBreaks(Tail(v))

RECURSIVE FactBreaks(_)
FactBreaks(fs) == IF fs = <<>> THEN 0 ELSE LineBreaks(Head(fs).value) + FactBreaks(Tail(fs))

\* The line breaks in the values of the facts of the person objects.
RECURSIVE PersonBreaks(_)
PersonBreaks(ps) == IF ps = <<>> THEN 0 ELSE FactBreaks(Head(ps).facts) + PersonBreaks(Tail(ps))

\* A node with the nodes below it, each with its depth.
RECURSIVE Within(_, _)
Within(node, level) ==
  {<<node, level>>} \cup UNION {Within(node.subs[i], level + 1) : i \in 1..Len(node.subs)}

\* A part of a text as a line shows it: a leading at sign is doubled.
Escaped(part) == IF part # <<>> /\ part[1] = "@" THEN <<"@">> \o part ELSE part

\* The lines a node with a text of characters must serialize to: one line with
\* the first part of the text, one CONT line at depth+1 for each further part,
\* then the lines of the substructures.
ExpectedLines(heap, node, level) ==
  LET parts == SplitLines(node.payload.t)
  IN  <<[level |-> level, xref |-> node.id, tag |-> node.tag, value |-> Chars(Escaped(parts[1]))]>>
      \o [i \in 1..(Len(parts) - 1) |->
            [level |-> level + 1, xref |-> 0, tag |-> "CONT", value |-> Chars(Escaped(parts[i + 1]))]]
      \o SerializeAll(heap, node.subs, level + 1)

\* C11: serialization line count.  Every node with a text payload of N line
\* breaks serializes to one line, then N CONT lines at depth+1, one for each
\* part of the text, empty parts included, then the lines of its
\* substructures; and the returned document holds as many CONT lines as the
\* values of the source's facts have line breaks (CR LF counting once).
C11_ContinuationLines ==
  /\ \A r \in 1..Len(records) :
       \A p \in Within(nodes[records[r].node], 0) :
         (p[1].payload.k = "text" /\ p[1].payload.t # <<>>) =>
           /\ Serialize(nodes, p[1], p[2]) = ExpectedLines(nodes, p[1], p[2])
           /\ Len(ContLines(p[1], p[2])) = Len(SelectSeq(p[1].payload.t, LAMBDA c : c = "\n"))
  /\ pc = "done" =>
       Len(SelectSeq(doc, LAMBDA l : l.tag = "CONT")) = PersonBreaks(gx.persons)

\* C11 witness: the document of a FACT whose value has an empty first line, an
\* empty second line and a third line that starts with an at sign: the FACT
\* line, an empty CONT line, a CONT line with the doubled at sign, then the
\* TYPE substructure.
C11_Witness ==
  /\ pc = "done"
  /\ \E i \in 1..(Len(doc) - 3) :
       /\ doc[i].tag = "FACT" /\ doc[i].value = Chars(<<>>)
       /\ doc[i + 1].tag = "CONT" /\ doc[i + 1].level = 2 /\ doc[i + 1].value = Chars(<<>>)
       /\ doc[i + 2].tag = "CONT" /\ doc[i + 2].value = Chars(<<"@", "@">>)
       /\ doc[i + 3].tag = "TYPE"

\* C12: fresh state per conversion.  A later call with the same graph starts
\* with an empty heap and registry, empty numbering tables and the anchor
\* counter at 0, whatever the call before left behind (the global per2
\* included); every call returns the document the first call returned; and no
\* step changes the source graph.
C12_FreshStatePerCall ==
  [][/\ gx' = gx
     /\ (call' # call) =>
          /\ pc = "done"
          /\ nodes' = <<>> /\ records' = <<>> /\ nextXrefID' = 0
          /\ gennumber' = <<>> /\ famof' = <<>>
          /\ pc' = "run" /\ pi' = 1 /\ ri' = 1
     /\ \A i \in 1..Len(returned') : returned'[i] = returned'[1]
     /\ pc' = "done" => (Len(returned') = call' /\ doc' = returned'[1])
    ]_vars

\* C12 witness: the second call has returned, after a first call that made
\* anchors and families and left a node in the global per2.
C12_Witness ==
  /\ call = 2
  /\ pc = "done"
  /\ Len(returned) = 2
  /\ globalPer2.call = 2
  /\ NodesTagged(nodes, "FAM") # {}
  /\ nextXrefID > 2

\* The explicit sex marker of a person node: the text of its SEX substructure.
SexOf(heap, p) ==
  LET sex == SelectSeq(heap[p].subs, LAMBDA s : s.tag = "SEX")
  IN  IF sex = <<>> THEN "" ELSE sex[Len(sex)].payload.s

IsSpouseKey(num) == IncludesDashS(num) /\ SplitAt(num) # 0 /\ Here(num)[1] = "S"

\* C13: spouse role by sex marker.  In the family-group a spouse annotation
\* recorded for the annotated person and the prefix person, a person with the
\* marker F is the WIFE and a person with the marker M is the HUSB (when the
\* two do not carry the same marker).
C13_SexMarkerDecidesRole ==
  \A num \in DOMAIN famof :
    (IsSpouseKey(num) /\ SexOf(nodes, gennumber[num]) # SexOf(nodes, gennumber[Prev(num)])) =>
      \A p \in {gennumber[num], gennumber[Prev(num)]} :
        /\ SexOf(nodes, p) = "F" => p \in RefsOf(nodes[famof[num]].subs, "WIFE")
        /\ SexOf(nodes, p) = "M" => p \in RefsOf(nodes[famof[num]].subs, "HUSB")

\* The entry the generation pass takes next is a D'Aboville child key whose
\* prefix has a person and no family recorded in famof.
DefaultFamilyStep ==
  /\ pc = "generation"
  /\ todo # <<>>
  /\ IncludesDot(Head(todo))
  /\ SplitAt(Head(todo)) # 0
  /\ Here(Head(todo))[1] # "S"
  /\ Prev(Head(todo)) \in DOMAIN gennumber
  /\ Prev(Head(todo)) \notin DOMAIN famof

\* C14: default-family fallback.  The step for a child key prefix.k with no
\* family recorded for prefix completes without error; it records at prefix a
\* family-group whose only participant is the prefix person and, for k >= 1,
\* places the child in it.
C14_DefaultFamilyFallback ==
  [][DefaultFamilyStep =>
       LET prev == Prev(Head(todo))
           per == gennumber[Head(todo)]
       IN  /\ pc' # "thrown"
           /\ prev \in DOMAIN famof'
           /\ nodes'[famof'[prev]].tag = "FAM"
           /\ Couple(nodes', famof'[prev]) = {gennumber[prev]}
           /\ DecimalValue(Here(Head(todo))) >= 1 => InList(Ref(per), ChildList(nodes', famof'[prev]))
     ]_vars

\* The code point of a character of a key.
CodePoint(c) == CASE c = "-" -> 45 [] c = "." -> 46 [] c = "S" -> 83 [] OTHER -> 48 + DigitValue(c)

\* a is before b in the order of length, then of the characters' code points.
ShorterOrLexBefore(a, b) ==
  \/ Len(a) < Len(b)
  \/ /\ Len(a) = Len(b)
     /\ \E i \in 1..Len(a) :
          /\ CodePoint(a[i]) < CodePoint(b[i])
          /\ \A j \in 1..(i - 1) : a[j] = b[j]

IsChildKey(num) == IncludesDot(num) /\ SplitAt(num) # 0 /\ Here(num)[1] # "S"

\* C15: resolution order.  The entries are taken in the order of key length,
\* then lexicographic order: when the generation pass starts, its work list
\* holds every annotated key once in that order; each step takes the first
\* entry; when it takes a D'Aboville key whose prefix is annotated the prefix
\* has been taken before, and when it takes the child key P.k every child key
\* of P still to come has an index above k.
C15_ResolutionOrder ==
  [][/\ (pc = "run" /\ pc' = "generation") =>
          /\ Len(todo') = Cardinality(DOMAIN gennumber)
          /\ {todo'[i] : i \in 1..Len(todo')} = DOMAIN gennumber
          /\ \A i, j \in 1..Len(todo') : i < j => ShorterOrLexBefore(todo'[i], todo'[j])
     /\ (pc = "generation" /\ todo # <<>>) =>
          LET num == Head(todo)
              later == {todo[i] : i \in 2..Len(todo)}
          IN  /\ todo' = Tail(todo)
              /\ (IsDAboville(num) /\ SplitAt(num) # 0 /\ Prev(num) \in DOMAIN gennumber) =>
                   /\ Prev(num) \notin later
                   /\ Prev(num) # num
              /\ IsChildKey(num) =>
                   \A o \in later :
                     (IsChildKey(o) /\ Prev(o) = Prev(num)) =>
                       DecimalValue(Here(o)) > DecimalValue(Here(num))
    ]_vars

\* C15 witness: the second child of the person at 5 has been placed and the
\* tenth child is the entry still to come.
C15_Witness ==
  /\ pc = "generation"
  /\ todo = <<(<<"5", ".", "1", "0">>)>>
  /\ <<"5", ".", "2">> \in DOMAIN gennumber
  /\ <<"5">> \in DOMAIN famof
  /\ ChildList(nodes, famof[<<"5">>]) = <<VOID, Ref(gennumber[<<"5", ".", "2">>])>>

\* The relationship pass takes a record of kind Couple next.
CoupleStep ==
  /\ pc = "run"
  /\ pi > Len(gx.persons)
  /\ ri <= Len(gx.relationships)
  /\ gx.relationships[ri].type = "http://gedcomx.org/Couple"

\* The family-groups of a heap that join exactly the nodes a and b.
FamsOf(heap, a, b) == {f \in NodesTagged(heap, "FAM") : Couple(heap, f) = {a, b}}

\* C16: relationship pass.  After a Couple record is processed both
\* participants have an INDI node in the registry under their person id: the
\* node registered before, or else a new stub; exactly one family-group joins
\* the pair, with one HUSB and one WIFE, the two participants; and when the
\* pair had a family-group already, the record adds its EXID, facts and
\* sources to that node and creates no family-group.
C16_RelationshipPass ==
  [][CoupleStep =>
       LET r == gx.relationships[ri]
           k1 == PersonKey(r.person1)
           k2 == PersonKey(r.person2)
           n1 == Lookup(records', k1)
           n2 == Lookup(records', k2)
           fam == Lookup(records', CoupleKey(r.person1, r.person2))
       IN  /\ HasKey(records', k1) /\ HasKey(records', k2)
           /\ nodes'[n1].tag = "INDI" /\ nodes'[n2].tag = "INDI"
           /\ \A k \in {k1, k2} :
                IF HasKey(records, k)
                THEN /\ Lookup(records', k) = Lookup(records, k)
                     /\ \A i \in 1..Len(nodes[Lookup(records, k)].subs) :
                          nodes'[Lookup(records, k)].subs[i].tag = nodes[Lookup(records, k)].subs[i].tag
                ELSE /\ Lookup(records', k) > Len(nodes)
                     /\ nodes'[Lookup(records', k)].subs[1].tag = "EXID"
           /\ FamsOf(nodes', n1, n2) = {fam}
           /\ Len(PayloadsOf(nodes'[fam].subs, "HUSB")) = 1
           /\ Len(PayloadsOf(nodes'[fam].subs, "WIFE")) = 1
           /\ Couple(nodes', fam) = {n1, n2}
           /\ InList(Text(r.id), PayloadsOf(nodes'[fam].subs, "EXID"))
           /\ (HasKey(records, CoupleKey(r.person1, r.person2))) =>
                /\ fam = Lookup(records, CoupleKey(r.person1, r.person2))
                /\ NodesTagged(nodes', "FAM") = NodesTagged(nodes, "FAM")
                /\ pc' # "thrown" =>
                     Len(nodes'[fam].subs) = Len(nodes[fam].subs) + 1 + Len(r.facts) + Len(r.sources)
     ]_vars

\* C16 witness: the records R1 (P1, P2) and R2 (P2, P1) were processed; one
\* family-group carries both EXIDs and the marriage of R2, and P2, who was not
\* listed as a person, has a stub.
C16_Witness ==
  /\ Cardinality(NodesTagged(nodes, "FAM")) = 1
  /\ \E f \in NodesTagged(nodes, "FAM") :
       /\ InList(Text("R1"), PayloadsOf(nodes[f].subs, "EXID"))
       /\ InList(Text("R2"), PayloadsOf(nodes[f].subs, "EXID"))
       /\ \E i \in 1..Len(nodes[f].subs) : nodes[f].subs[i].tag = "MARR"
  /\ HasKey(records, PersonKey("P1")) /\ HasKey(records, PersonKey("P2"))
  /\ nodes[Lookup(records, PersonKey("P1"))].resourceId = "P1"
  /\ nodes[Lookup(records, PersonKey("P2"))].resourceId = UNDEF

\* Some node of the heap, at any depth, has the node n as its payload.
Referenced(heap, n) ==
  \E m \in 1..Len(heap) : \E p \in Within(heap[m], 0) : p[1].payload = Ref(n)

\* C17: anchor allocation.  In every step a node that has an anchor is the
\* payload of some node; an anchor, once given, stays; a new anchor is above
\* the counter's old value and the counter never decreases, so the anchors of
\* different nodes differ; and in the returned document a record that no
\* node refers to has no anchor on its line.
C17_AnchorAllocation ==
  [][/\ nextXrefID' >= nextXrefID
     /\ \A n \in 1..Len(nodes') :
          /\ nodes'[n].id # 0 =>
               /\ Referenced(nodes', n)
               /\ nodes'[n].id \in 1..nextXrefID'
               /\ \A m \in 1..Len(nodes') : m # n => nodes'[m].id # nodes'[n].id
          /\ (n <= Len(nodes) /\ nodes[n].id # 0) => nodes'[n].id = nodes[n].id
          /\ (nodes'[n].id # 0 /\ (IF n <= Len(nodes) THEN nodes[n].id ELSE 0) = 0) =>
               nodes'[n].id > nextXrefID
     /\ pc' = "done" =>
          \A i \in 1..Len(emitted') :
            ~Referenced(nodes', emitted'[i]) =>
              Serialize(nodes', nodes'[emitted'[i]], 0)[1].xref = 0
    ]_vars

\* The document is returned with two records of which one has an anchor and
\* is referred to, and the other has none and is referred to by no node.
C17_Witness ==
  /\ pc = "done"
  /\ \E i, j \in 1..Len(emitted) :
       /\ nodes[emitted[i]].id # 0
       /\ Referenced(nodes, emitted[i])
       /\ nodes[emitted[j]].id = 0
       /\ ~Referenced(nodes, emitted[j])
       /\ nodes[emitted[j]].tag = "INDI"
  /\ nextXrefID >= 2

\* C18: resolvable pointers.  In the returned document every pointer names
\* an anchor, and a record line of the same document carries that anchor.
C18_ResolvablePointers ==
  pc = "done" =>
    \A i \in 1..Len(doc) :
      doc[i].value.k = "ptr" =>
        /\ doc[i].value.n # 0
        /\ \E j \in 1..Len(doc) : doc[j].level = 0 /\ doc[j].xref = doc[i].value.n

\* The node carries a substructure with this tag that refers to the target.
Carries(node, tag, target) ==
  \E i \in 1..Len(node.subs) : node.subs[i].tag = tag /\ node.subs[i].payload = Ref(target)

\* C19: reciprocal membership.  When the generation pass has handled its last
\* entry, a person carries FAMC to a family-group exactly when the
\* family-group carries CHIL to the person, and FAMS exactly when the
\* family-group carries HUSB or WIFE to the person.
C19_ReciprocalMembership ==
  (pc = "generation" /\ todo = <<>>) =>
    \A P \in NodesTagged(nodes, "INDI") : \A F \in NodesTagged(nodes, "FAM") :
      /\ Carries(nodes[P], "FAMC", F) <=> Carries(nodes[F], "CHIL", P)
      /\ Carries(nodes[P], "FAMS", F) <=>
           (Carries(nodes[F], "HUSB", P) \/ Carries(nodes[F], "WIFE", P))

\* The HUSB and WIFE substructures of a node, in order.
RoleSubs(node) == SelectSeq(node.subs, LAMBDA s : s.tag \in {"HUSB", "WIFE"})

\* The FAMS substructures of a node that refer to the family-group f.
FamsTo(node, f) == SelectSeq(node.subs, LAMBDA s : s.tag = "FAMS" /\ s.payload = Ref(f))

\* The person id under which the registry holds the person a family-group
\* has in a role, UNDEF when the role is empty.
RoleId(h, f, tag) ==
  LET r == RefsOf(h.nodes[f].subs, tag)
  IN  IF r = {} THEN UNDEF
      ELSE CHOOSE p \in Participants \ {UNDEF} : Lookup(h.records, PersonKey(p)) \in r

\* C20: family roles are fixed at creation.  After every step each
\* family-group has at most one HUSB, at most one WIFE and at least one of
\* them; a family-group that existed before the step has the HUSB and WIFE
\* substructures it had, and every node has the FAMS references to it that
\* it had; and makeOrFindFam with the two participants in swapped roles
\* returns the family-group and changes nothing.
C20_RolesFixedAtCreation ==
  [][\A f \in NodesTagged(nodes', "FAM") :
       /\ Len(SelectSeq(nodes'[f].subs, LAMBDA s : s.tag = "HUSB")) <= 1
       /\ Len(SelectSeq(nodes'[f].subs, LAMBDA s : s.tag = "WIFE")) <= 1
       /\ RoleSubs(nodes'[f]) # <<>>
       /\ f <= Len(nodes) =>
            /\ RoleSubs(nodes'[f]) = RoleSubs(nodes[f])
            /\ \A P \in 1..Len(nodes) : FamsTo(nodes'[P], f) = FamsTo(nodes[P], f)
       /\ makeOrFindFam(Store', RoleId(Store', f, "WIFE"), RoleId(Store', f, "HUSB"))
            = [h |-> Store', n |-> f]
    ]_vars

\* The generation pass asked for the family-group of the persons at 2 and 3,
\* which the relationship pass had made with the person at 3 as HUSB and the
\* person at 2 as WIFE: the roles are those of the relationship record, and
\* each of the two persons has one FAMS reference to it.
C20_Witness ==
  /\ pc = "done"
  /\ gx.relationships # <<>>
  /\ <<"2">> \in DOMAIN famof
  /\ <<"2">> \in DOMAIN gennumber /\ <<"3">> \in DOMAIN gennumber
  /\ LET f == famof[<<"2">>]
     IN  /\ [i \in 1..Len(RoleSubs(nodes[f])) |-> RoleSubs(nodes[f])[i].payload]
              = <<Ref(gennumber[<<"3">>]), Ref(gennumber[<<"2">>])>>
         /\ [i \in 1..Len(RoleSubs(nodes[f])) |-> RoleSubs(nodes[f])[i].tag] = <<"HUSB", "WIFE">>
         /\ Len(FamsTo(nodes[gennumber[<<"2">>]], f)) = 1
         /\ Len(FamsTo(nodes[gennumber[<<"3">>]], f)) = 1

\* A child step for the index k >= 1 in a family-group whose k-th child
\* entry refers to a real person other than the child, who is not in the
\* child list yet.
OccupiedStep ==
  /\ ChildStep
  /\ Prev(Head(todo)) \in DOMAIN famof
  /\ LET per == gennumber[Head(todo)]
         k == DecimalValue(Here(Head(todo)))
         pre == ChildList(nodes, famof[Prev(Head(todo))])
     IN  /\ k >= 1
         /\ Len(pre) >= k
         /\ pre[k].k = "ref"
         /\ ~InList(Ref(per), pre)

\* C21: occupied child position.  When a D'Aboville child with index k is
\* placed in a family-group whose k-th child entry refers to another real
\* person, the child list becomes the old list with the child inserted as
\* its k-th entry, right before the entry that was there: every old entry
\* stays, in the old order, and the list is one longer.  The family-group's
\* other substructures are untouched and the child gets its FAMC reference.
C21_OccupiedChildPosition ==
  [][OccupiedStep =>
       LET per == gennumber[Head(todo)]
           k == DecimalValue(Here(Head(todo)))
           fam == famof[Prev(Head(todo))]
           pre == ChildList(nodes, fam)
           post == ChildList(nodes', fam)
       IN  /\ post = SubSeq(pre, 1, k - 1) \o <<Ref(per)>> \o SubSeq(pre, k, Len(pre))
           /\ Len(post) = Len(pre) + 1
           /\ post[k + 1] = pre[k]
           /\ OtherSubs(nodes'[fam].subs) = OtherSubs(nodes[fam].subs)
           /\ Carries(nodes'[per], "FAMC", fam)
           /\ famof' = famof
     ]_vars

\* The generation pass is over and some family-group has a D'Aboville child
\* with index k as its k-th child entry and, right behind it, another real
\* person who is no D'Aboville child of a later index: the entry that held
\* position k when the child was placed.
C21_Witness ==
  /\ pc = "generation"
  /\ todo = <<>>
  /\ \E num \in DOMAIN gennumber :
       /\ IsChildKey(num)
       /\ Prev(num) \in DOMAIN famof
       /\ LET k == DecimalValue(Here(num))
              list == ChildList(nodes, famof[Prev(num)])
          IN  /\ k >= 1
              /\ Len(list) > k
              /\ list[k] = Ref(gennumber[num])
              /\ list[k + 1].k = "ref"
              /\ list[k + 1] # list[k]
              /\ <<"1">> \in DOMAIN gennumber
              /\ list[k + 1] = Ref(gennumber[<<"1">>])

\* What a source reference identifies: its id, or without one its
\* descriptionId.
SourceIdentity(s) ==
  IF Truthy(s.id) THEN <<"id", s.id>> ELSE <<"descriptionId", PropKey(s.descriptionId)>>

\* The nodes the SOUR substructures of the i-th person's record refer to, in
\* the order of the person's source references.
SourceTargets(i) ==
  PayloadsOf(nodes[Lookup(records, PersonKey(gx.persons[i].id))].subs, "SOUR")

\* C22: distinct sources stay distinct.  For the persons the conversion has
\* handled, every source reference resolves to a SOUR record, and two source
\* references that identify different sources resolve to different records.
C22_DistinctSources ==
  pc # "thrown" =>
    \A i, j \in 1..(pi - 1) :
      \A a \in 1..Len(gx.persons[i].sources) : \A b \in 1..Len(gx.persons[j].sources) :
        /\ nodes[SourceTargets(i)[a].n].tag = "SOUR"
        /\ SourceIdentity(gx.persons[i].sources[a]) # SourceIdentity(gx.persons[j].sources[b])
             => SourceTargets(i)[a] # SourceTargets(j)[b]

====
